---- MODULE Spec2Model ----
(***************************************************************************)
(* Entity state reconciliation and rolling rain windows of the             *)
(* mobile_alerts integration (custom_components/mobile_alerts).            *)
(*                                                                         *)
(* One rain sensor of the gateway is modelled with its cumulative rain     *)
(* counter entity (a direct MobileAlertesSensor) and its three             *)
(* MobileAlertesPeriodRainSensor windows.  Times are epoch seconds, rain   *)
(* amounts are whole counter units.                                        *)
(***************************************************************************)
EXTENDS Integers, Sequences, FiniteSets, TLC

(* ----------------------------- bounds ---------------------------------- *)
\* number of sensor events (SensorUpdated) in one behaviour
MaxEvents == 2
\* largest cumulative rain counter value an event carries
MaxRain == 1
\* how many clock instants a packet's timestamp may lie behind the clock
MaxLag == 1
\* entities that may be inside async_added_to_hass at the same time
MaxPending == 1
\* notifications the coordinator may send before every entity has finished
\* async_added_to_hass
MaxEarly == 1

(* ------------------------- program constants --------------------------- *)
LAST_RAIN_PERIOD == 900
HOUR_PERIOD == 3600
DAY_PERIOD == 86400

\* The wall clock (time.time()) moves through these instants: an entry of
\* time 1000 is exactly on the 15 minute boundary at 1900 and past the hour
\* at 4601; the entries a previous run persisted (time 100) are on the
\* 15 minute boundary at 1000 and past it at 1900.
ClockTimes == <<1000, 1900, 4601>>

(* ------------------------------ values --------------------------------- *)
\* Python values that may be None, a number, a state string or an error.
\*   k = "none": None                 k = "num": a float
\*   k = "str" : a numeric string     k = "unk": a non-numeric state string
\*   k = "err" : a MeasurementError
NoneV == [k |-> "none", v |-> 0]
Num(n) == [k |-> "num", v |-> n]
Str(n) == [k |-> "str", v |-> n]
ErrV == [k |-> "err", v |-> 0]
UnkV == [k |-> "unk", v |-> 0]

\* float(x): defined on floats and numeric strings, raises otherwise
FloatOk(x) == x.k \in {"num", "str"}
Float(x) == x.v

\* str(native_value) as the host stores it in State.state
StateStr(x) == IF x.k \in {"num", "str"} THEN Str(x.v) ELSE UnkV

\* The host's local time zone sets its clocks back one hour at the instant
\* FOLD: the instants of the hour after FOLD show the same local wall time
\* as those of the hour before it.
FOLD == 4000
FOLD_LEN == 3600

\* datetime.fromtimestamp(t).isoformat(): the naive local wall time, which
\* does not say which of the two instants of a repeated hour it is.  A wall
\* time is represented by the first instant that shows it.
isoformat(t) ==
    [iso |-> IF t >= FOLD /\ t < FOLD + FOLD_LEN THEN t - FOLD_LEN ELSE t]
\* datetime.fromisoformat(s).timestamp(): a naive wall time is read as local
\* time, and a repeated wall time as its first instant (fold = 0)
fromisoformat(s) == s.iso
\* a stored string that is not an ISO timestamp, on which
\* datetime.fromisoformat raises ValueError
BadIso == [iso |-> -1]
IsoOk(x) == x.iso >= 0
\* a stored increment that is not a number (stands for a non-numeric
\* string), on which float() raises ValueError
BadInc == -1000
IncOk(v) == v # BadInc

(* --------------------------- attribute maps ---------------------------- *)
STATE_ATTR_BY_EVENT == "by_event"
STATE_ATTR_ERROR == "error"
STATE_ATTR_LAST_UPDATED == "last_updated"
STATE_ATTR_PRIOR_VALUE == "prior_value"
STATE_ATTR_MEASUREMTS == "measurements"

EmptyMap == [x \in {} |-> 0]
\* dict.update(b) on a
MapUpdate(a, b) ==
    [x \in (DOMAIN a) \cup (DOMAIN b) |-> IF x \in DOMAIN b THEN b[x] ELSE a[x]]
MapSet(a, key, val) == MapUpdate(a, [x \in {key} |-> val])
\* an optional dict: None or a dict
NoneMap == [has |-> FALSE, m |-> EmptyMap]
SomeMap(m) == [has |-> TRUE, m |-> m]

(* ------------------------- window dictionaries ------------------------- *)
\* self._measurements: a dict in insertion order, as a sequence of entries
Entry(t, v) == [t |-> t, v |-> v]
Keys(meas) == {meas[i].t : i \in 1..Len(meas)}

RECURSIVE SumSeq(_)
SumSeq(meas) == IF meas = <<>> THEN 0 ELSE meas[1].v + SumSeq(Tail(meas))

\* self._measurements[t] = v
DictSet(meas, t, v) ==
    IF t \in Keys(meas)
    THEN [i \in 1..Len(meas) |-> IF meas[i].t = t THEN Entry(t, v) ELSE meas[i]]
    ELSE Append(meas, Entry(t, v))

\* self._measurements.pop(key) of the entry at position i
DictPopAt(meas, i) == SubSeq(meas, 1, i - 1) \o SubSeq(meas, i + 1, Len(meas))

\* positions of the entries the eviction loop finds stale
StalePos(meas, now, period) == {i \in 1..Len(meas) : meas[i].t < now - period}
Min(S) == CHOOSE x \in S : \A y \in S : x <= y

(* ------------------------------ entities ------------------------------- *)
\* create_sensor_entities: the rain counter entity and its three windows
Rain == "rain"
Windows == {"w15", "w60", "wday"}
Ents == {Rain} \cup Windows

\* MobileAlertesPeriodRainSensor._period
Period(e) ==
    CASE e = "w15" -> LAST_RAIN_PERIOD
      [] e = "w60" -> HOUR_PERIOD
      [] e = "wday" -> DAY_PERIOD
      [] OTHER -> 0

\* create_sensor_entities / create_binary_sensor_entities: the time span
\* entity of the rain sensor (a direct MobileAlertesSensor on
\* measurements[2]) and the is-raining binary entity that follows it
Span == "span"
IsRaining == "is_raining"

\* MobileAlertesEntity._value_is_calculated
IsCalculated(e) == e \in Windows \cup {IsRaining}
\* Measurement.has_prior_value of the entity's measurement
HasPriorValue(e) == e = Rain

NoState == [has |-> FALSE, state |-> NoneV]
\* the state last written to the host; live is bookkeeping: whether the
\* sensor had live data when it was written
NoPub == [has |-> FALSE, value |-> NoneV, attrs |-> NoneMap, live |-> FALSE]

\* MobileAlertesEntity.__init__ / MobileAlertesPeriodRainSensor.__init__
FreshEntity ==
    [pc |-> "new", added |-> FALSE, last_state |-> NoState,
     last_extra |-> NoneMap, native |-> NoneV, attrs |-> NoneMap,
     deps |-> <<>>, lu |-> 0, meas |-> <<>>, rain_ref |-> FALSE,
     pub |-> NoPub, live_seen |-> FALSE, restores |-> 0,
     late_restore |-> FALSE]

\* the library's Sensor before its first packet; two fields are bookkeeping:
\* pkt_prior, the prior value the last packet carried before any entity
\* filled it in, and err_seen, whether a packet of this run was a decode error
FreshSensor ==
    [has_update |-> FALSE, timestamp |-> 0, by_event |-> FALSE,
     value |-> NoneV, prior |-> NoneV, pkt_prior |-> NoneV,
     err_seen |-> FALSE]

(* --------------------- MobileAlertesEntity properties ------------------ *)
\* the value prior_value hands to float(), NoneV when it returns -1 untouched
PriorSource(w, e) ==
    IF w.s.has_update
    THEN IF HasPriorValue(e) THEN w.s.prior ELSE NoneV
    ELSE IF w.ent[e].last_extra.has
              /\ STATE_ATTR_PRIOR_VALUE \in DOMAIN w.ent[e].last_extra.m
         THEN w.ent[e].last_extra.m[STATE_ATTR_PRIOR_VALUE]
         ELSE NoneV

\* prior_value raises when float() is given a non-numeric string
prior_value_raises(w, e) ==
    PriorSource(w, e).k # "none" /\ ~FloatOk(PriorSource(w, e))

prior_value(w, e) ==
    IF PriorSource(w, e).k = "none" THEN -1 ELSE Float(PriorSource(w, e))

last_update(w, e) ==
    IF w.s.has_update
    THEN w.s.timestamp
    ELSE IF w.ent[e].last_extra.has
              /\ STATE_ATTR_LAST_UPDATED \in DOMAIN w.ent[e].last_extra.m
         THEN fromisoformat(w.ent[e].last_extra.m[STATE_ATTR_LAST_UPDATED])
         ELSE 0

\* last_update raises ValueError when the restored last_updated it falls back
\* to cannot be parsed
last_update_raises(w, e) ==
    /\ ~w.s.has_update
    /\ w.ent[e].last_extra.has
    /\ STATE_ATTR_LAST_UPDATED \in DOMAIN w.ent[e].last_extra.m
    /\ ~IsoOk(w.ent[e].last_extra.m[STATE_ATTR_LAST_UPDATED])

\* add_dependent without the membership test
add_dependent_always(w, base, e) ==
    [w EXCEPT !.ent[base].deps = Append(@, e)]

\* MobileAlertesEntity.add_dependent
add_dependent(w, base, e) ==
    IF \E i \in 1..Len(w.ent[base].deps) : w.ent[base].deps[i] = e
    THEN w
    ELSE [w EXCEPT !.ent[base].deps = Append(@, e)]

Raise(w, what) == [w EXCEPT !.exc = what]

(* ------------------ MobileAlertesSensor (direct entity) ---------------- *)
\* self._measurement.value: the rain measurement for the rain counter
\* entity, the time span measurement for the time span entity
MeasurementValue(w, e) == IF e = Span THEN w.s.span ELSE w.s.value

\* update_data_from_sensor without lines 238-240: a missing prior value is
\* left missing
Sensor_update_data_from_sensor_nofill(w, e) ==
    LET nv == IF MeasurementValue(w, e).k = "err" THEN NoneV
              ELSE MeasurementValue(w, e)
    IN  [w EXCEPT !.ent[e].native = nv]

\* MobileAlertesSensor.update_data_from_sensor, for the rain counter entity
\* (its measurement is the RAIN measurement, not an enum type)
Sensor_update_data_from_sensor(w, e) ==
    LET s1 == IF e = Rain /\ w.s.prior.k = "none"
              THEN [w.s EXCEPT !.prior = w.ent[e].native]
              ELSE w.s
        nv == IF MeasurementValue(w, e).k = "err" THEN NoneV
              ELSE MeasurementValue(w, e)
    IN  [w EXCEPT !.s = s1, !.ent[e].native = nv]

\* MobileAlertesSensor.update_data_from_last_state
Sensor_update_data_from_last_state(w, e) ==
    IF w.ent[e].last_state.has
    THEN [w EXCEPT !.ent[e].native = w.ent[e].last_state.state,
                   !.ent[e].last_state = NoState]
    ELSE [w EXCEPT !.ent[e].native = NoneV]

(* ---------------------- MobileAlertesPeriodRainSensor ------------------ *)
\* _get_rain_sensor: resolve the rain counter entity through the coordinator
\* once, and register this window as its dependent
get_rain_sensor(w, e) ==
    IF ~w.ent[e].rain_ref /\ w.reg
    THEN add_dependent([w EXCEPT !.ent[e].rain_ref = TRUE], Rain, e)
    ELSE w

\* float(rain_sensor._attr_native_value) and rain_sensor.prior_value raise on
\* None and on non-numeric strings
last_rain_raises(w) ==
    IF ~FloatOk(w.ent[Rain].native)
    THEN IF w.ent[Rain].native.k = "none" THEN "TypeError" ELSE "ValueError"
    ELSE IF prior_value_raises(w, Rain) THEN "ValueError"
    ELSE IF prior_value(w, Rain) >= 0 /\ last_update_raises(w, Rain)
    THEN "ValueError" ELSE "none"

\* _get_last_rain_value with a timestamp comparison that lets a delta of an
\* equal timestamp through
get_last_rain_value_ge(w, e) ==
    IF prior_value(w, Rain) >= 0 /\ last_update(w, Rain) >= w.ent[e].lu
    THEN Num(Float(w.ent[Rain].native) - prior_value(w, Rain))
    ELSE NoneV

\* _get_last_rain_value, once the rain entity is resolved: NoneV or the
\* difference of the counter and its prior value
get_last_rain_value(w, e) ==
    IF prior_value(w, Rain) >= 0 /\ last_update(w, Rain) > w.ent[e].lu
    THEN Num(Float(w.ent[Rain].native) - prior_value(w, Rain))
    ELSE NoneV

\* "if last_rain:" is false for None and for 0.0
Truthy(x) == x.k = "num" /\ x.v # 0

\* lines 399-410: insert the increment under the rain entity's timestamp
AcceptStep(w, e) ==
    LET w1 == get_rain_sensor(w, e)
    IN  IF ~w1.ent[e].rain_ref
        THEN w1
        ELSE IF last_rain_raises(w1) # "none"
        THEN Raise(w1, last_rain_raises(w1))
        ELSE IF Truthy(get_last_rain_value(w1, e))
        THEN [w1 EXCEPT
                !.ent[e].meas = DictSet(@, last_update(w1, Rain),
                                        get_last_rain_value(w1, e).v),
                !.ent[e].lu = last_update(w1, Rain)]
        ELSE w1

\* lines 428-439: the attribute blob of a window
WindowAttrs(ent) ==
    [x \in {STATE_ATTR_LAST_UPDATED, STATE_ATTR_MEASUREMTS} |->
        IF x = STATE_ATTR_LAST_UPDATED
        THEN isoformat(ent.lu)
        ELSE [i \in 1..Len(ent.meas) |->
                 <<isoformat(ent.meas[i].t), ent.meas[i].v>>]]

\* lines 412-439: the eviction loop pops while it iterates over the dict; the
\* iterator raises RuntimeError on the step after the first pop, so at most
\* one stale entry is removed and nothing after the loop runs
EvictStep(w, e, now) ==
    LET meas == w.ent[e].meas
        stale == StalePos(meas, now, Period(e))
    IN  IF stale = {}
        THEN [w EXCEPT !.ent[e].native = Num(SumSeq(meas)),
                       !.ent[e].attrs = SomeMap(WindowAttrs(w.ent[e]))]
        ELSE Raise([w EXCEPT !.ent[e].meas = DictPopAt(meas, Min(stale))],
                   "RuntimeError")

\* one record of the log per call of a window's update_data_from_sensor
\* (bookkeeping): the window before the call (0), after the insertion (a)
\* and after the call (1), the rain entity's timestamp and prior value, and
\* the difference of the counter and its prior value where both are numbers
LogRec(e, now, w0, w1, w2) ==
    [e |-> e, now |-> now,
     base_t |-> last_update(w0, Rain),
     resolved |-> w1.ent[e].rain_ref,
     prior |-> IF prior_value_raises(w0, Rain) THEN -1
               ELSE prior_value(w0, Rain),
     delta |-> IF w1.ent[e].rain_ref /\ last_rain_raises(w1) = "none"
                  /\ prior_value(w1, Rain) >= 0
               THEN Num(Float(w1.ent[Rain].native) - prior_value(w1, Rain))
               ELSE NoneV,
     lu0 |-> w0.ent[e].lu, meas0 |-> w0.ent[e].meas,
     native0 |-> w0.ent[e].native,
     measA |-> w1.ent[e].meas, excA |-> w1.exc,
     lu1 |-> w2.ent[e].lu, meas1 |-> w2.ent[e].meas,
     native1 |-> w2.ent[e].native, attrs1 |-> w2.ent[e].attrs,
     exc |-> w2.exc]

\* the rest of the call after the insertion w1 of the call started in w: an
\* exception of the insertion ends the call
AfterAccept(w, w1, w2, e, now) ==
    [w2 EXCEPT !.log = Append(@, LogRec(e, now, w, w1, w2))]

EvictAfter(w, w1, e, now) ==
    AfterAccept(w, w1, IF w1.exc # "none" THEN w1 ELSE EvictStep(w1, e, now),
                e, now)

\* MobileAlertesPeriodRainSensor.update_data_from_sensor
PeriodRain_update_data_from_sensor(w, e, now) ==
    EvictAfter(w, AcceptStep(w, e), e, now)

\* the window contents a snapshot's attribute blob decodes to
DecodeMeasurements(list) ==
    [i \in 1..Len(list) |-> Entry(fromisoformat(list[i][1]), list[i][2])]

RECURSIVE DictFromSeq(_)
\* a dict comprehension: a later pair with the same key overwrites in place
DictFromSeq(es) ==
    IF es = <<>> THEN <<>>
    ELSE LET n == Len(es)
         IN  DictSet(DictFromSeq(SubSeq(es, 1, n - 1)), es[n].t, es[n].v)

\* lines 459-463: the dict comprehension raises ValueError on a timestamp
\* fromisoformat cannot parse and on an increment float() cannot convert
MeasurementsRaise(list) ==
    \E i \in 1..Len(list) : ~IsoOk(list[i][1]) \/ ~IncOk(list[i][2])

\* lines 452-464: the entries of the blob replace the window's, unless the
\* comprehension raises before the assignment
RestoreMeasurements(w, e, x) ==
    IF x.has /\ STATE_ATTR_MEASUREMTS \in DOMAIN x.m
    THEN IF MeasurementsRaise(x.m[STATE_ATTR_MEASUREMTS])
         THEN Raise(w, "ValueError")
         ELSE [w EXCEPT !.ent[e].meas =
                  DictFromSeq(DecodeMeasurements(x.m[STATE_ATTR_MEASUREMTS]))]
    ELSE w

\* lines 465-473: the blob's last_updated replaces the window's
RestoreLastUpdate(w, e, x) ==
    IF w.exc # "none" THEN w
    ELSE IF x.has /\ STATE_ATTR_LAST_UPDATED \in DOMAIN x.m
    THEN IF IsoOk(x.m[STATE_ATTR_LAST_UPDATED])
         THEN [w EXCEPT !.ent[e].lu = fromisoformat(x.m[STATE_ATTR_LAST_UPDATED])]
         ELSE Raise(w, "ValueError")
    ELSE w

\* MobileAlertesPeriodRainSensor.update_data_from_last_state
PeriodRain_update_data_from_last_state(w, e) ==
    RestoreLastUpdate(
        RestoreMeasurements(Sensor_update_data_from_last_state(w, e), e,
                            w.ent[e].last_extra),
        e, w.ent[e].last_extra)

(* ------------------ MobileAlertesIsRainingBinarySensor ------------------ *)
\* The values of the time span entity are in tenths: Num(5) is 0.5.
\* A Python bool as _attr_is_on
BoolV(b) == Num(IF b THEN 1 ELSE 0)

\* int(x) truncates a float toward zero.  A restored state is a string:
\* int() converts it only when it is an integer literal, taken here to be
\* every numeric string without tenths, and raises ValueError otherwise
IntRaises(x) == x.k = "unk" \/ (x.k = "str" /\ x.v % 10 # 0)
IntOf(x) == IF x.v >= 0 THEN x.v \div 10 ELSE -((-x.v) \div 10)

\* lines 174-186: the value when the time span entity has one
IsRainingValue(w, t) ==
    IF w.ent[Span].native.k = "none" THEN w
    ELSE IF IntRaises(w.ent[Span].native) THEN Raise(w, "ValueError")
    ELSE [w EXCEPT !.ent[IsRaining].native =
             BoolV(IntOf(w.ent[Span].native) = 0
                   /\ last_update(w, Span) >= t - LAST_RAIN_PERIOD)]

\* update_data_from_sensor with a registration that appends without the
\* membership test
IsRaining_update_data_from_sensor_append(w, t) ==
    IF w.reg
    THEN LET w1 == IsRainingValue(add_dependent_always(w, Span, IsRaining), t)
         IN  IF w1.exc # "none" \/ w.ent[Span].native.k # "none" THEN w1
             ELSE [w1 EXCEPT !.ent[IsRaining].native = BoolV(FALSE)]
    ELSE [w EXCEPT !.ent[IsRaining].native = BoolV(FALSE)]

\* MobileAlertesIsRainingBinarySensor.update_data_from_sensor at
\* time.time() = t; an exception leaves _attr_is_on as it was
IsRaining_update_data_from_sensor(w, t) ==
    IF w.reg
    THEN LET w1 == IsRainingValue(add_dependent(w, Span, IsRaining), t)
         IN  IF w1.exc # "none" \/ w.ent[Span].native.k # "none" THEN w1
             ELSE [w1 EXCEPT !.ent[IsRaining].native = BoolV(FALSE)]
    ELSE [w EXCEPT !.ent[IsRaining].native = BoolV(FALSE)]

\* MobileAlertesBinarySensor.update_data_from_last_state; the stored state
\* "on" is written Str(1), every other state differs from it
Binary_update_data_from_last_state(w, e) ==
    IF w.ent[e].last_state.has
    THEN [w EXCEPT !.ent[e].native = BoolV(w.ent[e].last_state.state = Str(1)),
                   !.ent[e].last_state = NoState]
    ELSE [w EXCEPT !.ent[e].native = NoneV]

(* ------------------------- the update handler -------------------------- *)
update_data_from_sensor(w, e, now) ==
    IF e \in Windows
    THEN PeriodRain_update_data_from_sensor(w, e, now)
    ELSE IF e = IsRaining
    THEN IsRaining_update_data_from_sensor(w, now)
    ELSE Sensor_update_data_from_sensor(w, e)

update_data_from_last_state(w, e) ==
    IF e \in Windows
    THEN PeriodRain_update_data_from_last_state(w, e)
    ELSE IF e = IsRaining
    THEN Binary_update_data_from_last_state(w, e)
    ELSE Sensor_update_data_from_last_state(w, e)

\* the branch _handle_coordinator_update takes (lines 202-218)
Branch(w, e) ==
    IF IsCalculated(e)
    THEN IF w.ent[e].last_state.has THEN "restore+sensor" ELSE "sensor"
    ELSE IF w.s.has_update THEN "sensor"
    ELSE IF w.ent[e].last_state.has THEN "restore" ELSE "skip"

\* bookkeeping, not program state: how often the handler applied a snapshot
\* and whether it applied one after it had processed live sensor data
Noted(w, e, branch) ==
    LET restoring == branch \in {"restore", "restore+sensor"}
    IN  [w EXCEPT
           !.ent[e].restores = IF restoring THEN @ + 1 ELSE @,
           !.ent[e].late_restore = @ \/ (restoring /\ w.ent[e].live_seen)]

\* bookkeeping: the handler has processed live sensor data to the end of
\* update_data_from_sensor
NotedLive(w, e, branch, live) ==
    IF w.exc = "none" /\ live /\ branch \in {"sensor", "restore+sensor"}
    THEN [w EXCEPT !.ent[e].live_seen = TRUE]
    ELSE w

\* lines 204-205 and 217: the snapshot is applied on the restoring branches
RestoreIf(w, e, b) ==
    IF b \in {"restore", "restore+sensor"}
    THEN update_data_from_last_state(w, e)
    ELSE w

\* lines 206 and 210: the sensor's data is applied on the sensor branches
SensorIf(w, e, now, b) ==
    IF w.exc = "none" /\ b \in {"sensor", "restore+sensor"}
    THEN update_data_from_sensor(w, e, now)
    ELSE w

\* lines 202-218
ApplyValue(w, e, now) ==
    NotedLive(SensorIf(RestoreIf(Noted(w, e, Branch(w, e)), e, Branch(w, e)),
                       e, now, Branch(w, e)),
              e, Branch(w, e), w.s.has_update)

RECURSIVE FanOut(_, _, _)
\* lines 220-222: recompute the dependents in list order; an exception ends
\* the loop
FanOut(w, deps, now) ==
    IF deps = <<>> \/ w.exc # "none" THEN w
    ELSE FanOut(update_data_from_sensor(w, Head(deps), now), Tail(deps), now)

\* lines 225-240: the attributes the handler derives for this update
HandlerAttrs(w, e) ==
    IF w.s.has_update
    THEN LET a0 == [x \in {STATE_ATTR_LAST_UPDATED} |-> isoformat(w.s.timestamp)]
             a1 == IF IsCalculated(e) THEN a0
                   ELSE MapSet(a0, STATE_ATTR_BY_EVENT, w.s.by_event)
             a2 == IF ~IsCalculated(e) /\ HasPriorValue(e)
                   THEN MapSet(a1, STATE_ATTR_PRIOR_VALUE, w.s.prior) ELSE a1
         IN  IF ~IsCalculated(e) /\ MeasurementValue(w, e).k = "err"
             THEN MapSet(a2, STATE_ATTR_ERROR, "error") ELSE a2
    ELSE IF w.ent[e].last_extra.has THEN w.ent[e].last_extra.m
    ELSE EmptyMap

\* lines 224-252: merge the attributes and write the state to the host
Publish(w, e) ==
    LET attr == HandlerAttrs(w, e)
        old == w.ent[e].attrs
        new == IF old.has /\ old.m # EmptyMap
               THEN SomeMap(MapUpdate(old.m, attr))
               ELSE SomeMap(attr)
    IN  [w EXCEPT !.ent[e].attrs = new,
                  !.ent[e].pub = [has |-> TRUE, value |-> w.ent[e].native,
                                  attrs |-> new, live |-> w.s.has_update]]

\* lines 220-222
FanOutIf(w, e, now, updated) ==
    IF updated THEN FanOut(w, w.ent[e].deps, now) ELSE w

\* lines 224-252; an exception above leaves the handler before them
PublishIf(w, e, updated) ==
    IF w.exc = "none" /\ updated /\ w.ent[e].added THEN Publish(w, e) ELSE w

\* MobileAlertesEntity._handle_coordinator_update
handle_coordinator_update(w, e, now) ==
    PublishIf(FanOutIf(ApplyValue(w, e, now), e, now, Branch(w, e) # "skip"),
              e, Branch(w, e) # "skip")

RECURSIVE Notify(_, _, _)
\* DataUpdateCoordinator.async_update_listeners: call every listener in
\* subscription order; an exception of a listener propagates
Notify(w, ls, now) ==
    IF ls = <<>> \/ w.exc # "none" THEN w
    ELSE Notify(handle_coordinator_update(w, Head(ls), now), Tail(ls), now)

(* ------------------------------- state --------------------------------- *)
VARIABLES
    clk,        \* position of the wall clock in ClockTimes
    s,          \* the library's Sensor: last_update, timestamp, rain value, prior
    ent,        \* the entities' fields
    reg,        \* coordinator._entities holds the sensor's direct entities
    listeners,  \* the coordinator's listeners, in subscription order
    snap,       \* the state the host persisted for each entity
    exc,        \* the exception the last operation ended with, or "none"
    log,        \* the window recomputes of the last operation
    op,         \* the last operation
    nEvents,    \* sensor events so far
    nEarly      \* notifications sent before all entities were added

vars == <<clk, s, ent, reg, listeners, snap, exc, log, op, nEvents, nEarly>>

now == ClockTimes[clk]

NoSnap == [has |-> FALSE, state |-> NoneV, extra |-> NoneMap]

World == [s |-> s, ent |-> ent, reg |-> reg, exc |-> "none", log |-> <<>>]

\* the program state an operation leaves behind
Commit(w) ==
    /\ s' = w.s
    /\ ent' = w.ent
    /\ exc' = w.exc
    /\ log' = w.log

(* ------------------- the state a previous run persisted ---------------- *)
\* what the host persists for an entity: the last written state and
\* extra_restore_state_data, i.e. _attr_extra_state_attributes
Persisted(w, e) ==
    IF w.ent[e].pub.has
    THEN [has |-> TRUE, state |-> StateStr(w.ent[e].pub.value),
          extra |-> IF w.ent[e].attrs.has /\ w.ent[e].attrs.m # EmptyMap
                    THEN w.ent[e].attrs ELSE NoneMap]
    ELSE NoSnap

\* create_sensor_entities: the order in which the entities are listed
ListOrder == <<Rain, "w15", "w60", "wday">>

PacketSensor(old, v, p, t) ==
    [has_update |-> TRUE, timestamp |-> t, by_event |-> FALSE, value |-> v,
     prior |-> p, pkt_prior |-> p, err_seen |-> old.err_seen \/ v = ErrV]

RECURSIVE BootAll(_, _, _)
\* a first start without persisted state: the entities are added in list
\* order and each runs its handler once
BootAll(w, es, t) ==
    IF es = <<>> THEN w
    ELSE LET e == Head(es)
             w0 == [w EXCEPT !.ent[e].pc = "done", !.ent[e].added = TRUE,
                             !.exc = "none"]
         IN  BootAll(handle_coordinator_update(w0, e, t), Tail(es), t)

RECURSIVE Replay(_, _)
\* the packets of the previous run, each processed at its own timestamp
Replay(w, pkts) ==
    IF pkts = <<>> THEN w
    ELSE LET k == Head(pkts)
             w0 == [w EXCEPT !.s = PacketSensor(w.s, k.value, k.prior, k.t),
                             !.exc = "none"]
         IN  Replay(Notify(w0, ListOrder, k.t), Tail(pkts))

Packet(v, p, t) == [value |-> v, prior |-> p, t |-> t]

\* the previous runs the persisted state is taken from: none (a first
\* start), a run that counted one unit of rain, and a run of a sensor that
\* was added by sensor_added (its entities unregistered) and saw a decode
\* error before a valid reading
PrevRuns ==
    {[reg |-> TRUE, pkts |-> <<>>],
     [reg |-> TRUE,
      pkts |-> <<Packet(Num(0), NoneV, 50), Packet(Num(1), Num(0), 100)>>],
     [reg |-> FALSE,
      pkts |-> <<Packet(ErrV, NoneV, 50), Packet(Num(1), Num(0), 100)>>]}

PrevRunWorld(run) ==
    Replay(BootAll([s |-> FreshSensor, ent |-> [e \in Ents |-> FreshEntity],
                    reg |-> run.reg, exc |-> "none", log |-> <<>>],
                   ListOrder, 10),
           run.pkts)

SnapshotOf(run) ==
    IF run.pkts = <<>> THEN [e \in Ents |-> NoSnap]
    ELSE [e \in Ents |-> Persisted(PrevRunWorld(run), e)]

\* async_setup_entry registers the direct entities with the coordinator
\* (reg); sensor_added creates the entities of a sensor it has not seen
\* before without registering them
Init ==
    /\ clk = 1
    /\ s = FreshSensor
    /\ ent = [e \in Ents |-> FreshEntity]
    /\ reg \in BOOLEAN
    /\ \E run \in PrevRuns :
          /\ snap = SnapshotOf(run)
          /\ ~reg => run.pkts = <<>>
    /\ listeners = <<>>
    /\ exc = "none"
    /\ log = <<>>
    /\ op = [name |-> "init", e |-> Rain]
    /\ nEvents = 0
    /\ nEarly = 0

(* ------------------------------ operations ----------------------------- *)
\* async_added_to_hass up to its first await: the entity subscribes to the
\* coordinator and is marked as added
\* create_sensor_entities lists the rain counter entity first and the
\* windows in this order, and the host adds them in list order
EarlierWindows(e) ==
    CASE e = "w60" -> {"w15"}
      [] e = "wday" -> {"w15", "w60"}
      [] OTHER -> {}

AllDone == \A e \in Ents : ent[e].pc = "done"
AllNew == \A e \in Ents : ent[e].pc = "new"
Pending == {e \in Ents : ent[e].pc \in {"await_state", "await_extra"}}

Subscribe(e) ==
    /\ op' = [name |-> "subscribe", e |-> e]
    /\ ent[e].pc = "new"
    /\ Cardinality(Pending) < MaxPending
    /\ \A x \in EarlierWindows(e) : ent[x].pc # "new"
    /\ e # Rain => ent[Rain].pc = "done"
    /\ ent' = [ent EXCEPT ![e].pc = "await_state", ![e].added = TRUE]
    /\ listeners' = Append(listeners, e)
    /\ exc' = "none"
    /\ log' = <<>>
    /\ UNCHANGED <<clk, s, reg, snap, nEvents, nEarly>>

\* async_get_last_state returns
LoadState(e) ==
    /\ op' = [name |-> "load_state", e |-> e]
    /\ ent[e].pc = "await_state"
    /\ ent' = [ent EXCEPT ![e].pc = "await_extra",
                          ![e].last_state = [has |-> snap[e].has,
                                             state |-> snap[e].state]]
    /\ exc' = "none"
    /\ log' = <<>>
    /\ UNCHANGED <<clk, s, reg, listeners, snap, nEvents, nEarly>>

\* async_get_last_extra_data returns and the handler runs: the restore step
RestoreStep(e) ==
    /\ op' = [name |-> "restore", e |-> e]
    /\ ent[e].pc = "await_extra"
    /\ LET w0 == [World EXCEPT !.ent[e].pc = "done",
                               !.ent[e].last_extra = snap[e].extra]
       IN  Commit(handle_coordinator_update(w0, e, now))
    /\ UNCHANGED <<clk, reg, listeners, snap, nEvents, nEarly>>

EventValues == {ErrV} \cup {Num(n) : n \in 0..MaxRain}
EventPriors == {NoneV} \cup {Num(n) : n \in 0..MaxRain}
EventTimes == {ClockTimes[i] : i \in {j \in 1..clk : j >= clk - MaxLag}}

\* the library decodes a packet into the Sensor and calls sensor_updated,
\* which notifies every listener
SensorUpdated(v, p, t) ==
    /\ op' = [name |-> "event", e |-> Rain]
    /\ nEvents < MaxEvents
    /\ AllDone \/ nEarly < MaxEarly
    /\ nEarly' = IF AllDone THEN nEarly ELSE nEarly + 1
    /\ nEvents' = nEvents + 1
    /\ LET w0 == [World EXCEPT !.s = PacketSensor(s, v, p, t)]
       IN  Commit(Notify(w0, listeners, now))
    /\ UNCHANGED <<clk, reg, listeners, snap>>

\* the coordinator's periodic refresh (update_interval) notifies every listener
Refresh ==
    /\ op' = [name |-> "refresh", e |-> Rain]
    /\ listeners # <<>>
    /\ AllDone \/ nEarly < MaxEarly
    /\ nEarly' = IF AllDone THEN nEarly ELSE nEarly + 1
    /\ Commit(Notify(World, listeners, now))
    /\ UNCHANGED <<clk, reg, listeners, snap, nEvents>>

\* time passes
Tick ==
    /\ op' = [name |-> "tick", e |-> Rain]
    /\ clk < Len(ClockTimes)
    /\ AllDone \/ AllNew
    /\ clk' = clk + 1
    /\ exc' = "none"
    /\ log' = <<>>
    /\ UNCHANGED <<s, ent, reg, listeners, snap, nEvents, nEarly>>

Next ==
    \/ \E e \in Ents : Subscribe(e)
    \/ \E e \in Ents : LoadState(e)
    \/ \E e \in Ents : RestoreStep(e)
    \/ \E v \in EventValues, p \in EventPriors, t \in EventTimes :
          SensorUpdated(v, p, t)
    \/ Refresh
    \/ Tick

Spec == Init /\ [][Next]_vars

(* ------------- a window written to its blob and read back ------------- *)
\* The timestamps of the entries a window may hold, and their increments
WindowTimes == {100, 1000, 1900, 4601}
WindowIncrements == 1..(MaxRain + 1)

\* the windows a run can have built: at most MaxEntries entries in the order
\* of their timestamps (a window accepts only increasing timestamps)
MaxEntries == 2
WindowContents ==
    {<<>>}
    \cup {<<Entry(t, v)>> : t \in WindowTimes, v \in WindowIncrements}
    \cup {<<Entry(t1, v1), Entry(t2, v2)>> :
             t1 \in WindowTimes, t2 \in WindowTimes,
             v1 \in WindowIncrements, v2 \in WindowIncrements}

\* a window as update_data_from_sensor leaves it: entries, last_update, total
\* and the attribute blob of lines 428-439
BuiltWindow(meas) ==
    LET lu == IF meas = <<>> THEN 0 ELSE meas[Len(meas)].t
        e0 == [FreshEntity EXCEPT !.meas = meas, !.lu = lu,
                                  !.native = Num(SumSeq(meas)),
                                  !.pc = "done", !.added = TRUE]
    IN  [e0 EXCEPT !.attrs = SomeMap(WindowAttrs(e0))]

\* A sensor added by sensor_added (its rain entity is not registered, so a
\* window's recompute is the eviction alone); one window holds entries.
InitRT ==
    /\ clk \in 1..Len(ClockTimes)
    /\ s = FreshSensor
    /\ reg = FALSE
    /\ \E e \in Windows, meas \in WindowContents :
          /\ Len(meas) <= MaxEntries
          /\ \A i \in 1..Len(meas) : meas[i].t <= ClockTimes[clk]
          /\ \A i \in 1..Len(meas), j \in 1..Len(meas) :
                 i < j => meas[i].t < meas[j].t
          /\ ent = [x \in Ents |-> IF x = e THEN BuiltWindow(meas)
                                   ELSE FreshEntity]
          /\ op = [name |-> "built", e |-> e]
          /\ log = <<[meas |-> meas, lu |-> BuiltWindow(meas).lu]>>
    /\ snap = [e \in Ents |-> NoSnap]
    /\ listeners = <<>>
    /\ exc = "none"
    /\ nEvents = 0
    /\ nEarly = 0

\* the host persists the window's state and attribute blob, and the process
\* ends: the next process starts with fresh entities
SerializeRT ==
    /\ op.name = "built"
    /\ op' = [op EXCEPT !.name = "serialized"]
    /\ snap' = [snap EXCEPT ![op.e] =
                  [has |-> TRUE, state |-> StateStr(ent[op.e].native),
                   extra |-> ent[op.e].attrs]]
    /\ ent' = [x \in Ents |-> FreshEntity]
    /\ UNCHANGED <<clk, s, reg, listeners, exc, log, nEvents, nEarly>>

\* update_data_from_last_state of the fresh window on the persisted blob
DeserializeRT ==
    /\ op.name = "serialized"
    /\ op' = [op EXCEPT !.name = "deserialized"]
    /\ LET w0 == [World EXCEPT
                     !.ent[op.e].last_state = [has |-> TRUE,
                                               state |-> snap[op.e].state],
                     !.ent[op.e].last_extra = snap[op.e].extra,
                     !.log = log]
       IN  Commit(PeriodRain_update_data_from_last_state(w0, op.e))
    /\ UNCHANGED <<clk, reg, listeners, snap, nEvents, nEarly>>

\* the first update_data_from_sensor of the restored window
RecomputeRT ==
    /\ op.name = "deserialized"
    /\ op' = [op EXCEPT !.name = "recomputed"]
    /\ Commit(PeriodRain_update_data_from_sensor(
                 [World EXCEPT !.log = log], op.e, now))
    /\ UNCHANGED <<clk, reg, listeners, snap, nEvents, nEarly>>

NextRT == SerializeRT \/ DeserializeRT \/ RecomputeRT

SpecRT == InitRT /\ [][NextRT]_vars

(* ------------------------------ properties ----------------------------- *)
\* the sum of the entries of meas that are within the period at time t
InRangeSum(meas, t, period) ==
    SumSeq(SelectSeq(meas, LAMBDA x : x.t >= t - period))

Count(meas, x) == Cardinality({i \in 1..Len(meas) : meas[i] = x})

WorldNext == [s |-> s', ent |-> ent', reg |-> reg', exc |-> "none", log |-> <<>>]

\* C1: every recompute of a window at time now completes and sets the
\* displayed value to the sum of the entries with timestamp >= now - period.
\* (Stated for the recomputes that got past the insertion.)
C1_RecomputeSumsWindow ==
    \A i \in DOMAIN log :
        log[i].excA = "none" =>
            /\ log[i].exc = "none"
            /\ log[i].native1 =
                  Num(InRangeSum(log[i].measA, log[i].now, Period(log[i].e)))

\* C2: after every recompute of a window at time now its stored entries
\* hold no entry with timestamp < now - period.
C2_NoStaleEntryAfterRecompute ==
    \A i \in DOMAIN log :
        log[i].excA = "none" =>
            StalePos(log[i].meas1, log[i].now, Period(log[i].e)) = {}

\* C3: a recompute whose rain entity timestamp is <= the window's own
\* last_update inserts and overwrites nothing, leaves last_update unchanged
\* and, when it completes, reports the sum of the old in-range entries.
C3_StaleDeltaIsNoOp ==
    \A i \in DOMAIN log :
        (log[i].resolved /\ log[i].base_t <= log[i].lu0) =>
            /\ log[i].measA = log[i].meas0
            /\ log[i].lu1 = log[i].lu0
            /\ \A j \in DOMAIN log[i].meas1 : Count(log[i].meas0, log[i].meas1[j]) = 1
            /\ log[i].exc = "none" =>
                  log[i].native1 =
                     Num(InRangeSum(log[i].meas0, log[i].now, Period(log[i].e)))

\* C3 witness: a positive delta with a usable prior value arrived out of
\* order (its timestamp is older than the window's last_update) and the
\* recompute completed
C3_Witness ==
    \E i \in DOMAIN log :
        /\ log[i].resolved
        /\ log[i].base_t < log[i].lu0
        /\ log[i].delta.k = "num" /\ log[i].delta.v > 0
        /\ log[i].meas0 # <<>>
        /\ log[i].exc = "none"

\* C4: a rain delta with increment <= 0 is rejected: no entry is inserted
\* and last_update is unchanged.
C4_NonPositiveDeltaRejected ==
    \A i \in DOMAIN log :
        (log[i].delta.k = "num" /\ log[i].delta.v <= 0) =>
            /\ log[i].measA = log[i].meas0
            /\ log[i].lu1 = log[i].lu0

\* the window's last_update before the last operation
LuBefore(e) ==
    IF \E i \in DOMAIN log : log[i].e = e
    THEN log[Min({i \in DOMAIN log : log[i].e = e})].lu0
    ELSE ent[e].lu
MeasBefore(e) ==
    IF \E i \in DOMAIN log : log[i].e = e
    THEN log[Min({i \in DOMAIN log : log[i].e = e})].meas0
    ELSE ent[e].meas

\* C5: after a live update of the rain counter at a new timestamp t with value
\* c and carried prior value p, 0 <= p < c, every window holds exactly one
\* entry (t, c - p), and a window that was empty reports c - p.  (Stated for
\* handlers that are notified in the order the entities are listed.)
C5_EveryWindowGainsTheIncrement ==
    (/\ op.name = "event" /\ AllDone /\ reg /\ listeners = ListOrder
     /\ s.value.k = "num" /\ s.pkt_prior.k = "num"
     /\ 0 <= s.pkt_prior.v /\ s.pkt_prior.v < s.value.v
     /\ \A e \in Windows : LuBefore(e) < s.timestamp)
    => \A e \in Windows :
          /\ Count(ent[e].meas, Entry(s.timestamp, s.value.v - s.pkt_prior.v)) = 1
          /\ MeasBefore(e) = <<>> /\ e # "w15" =>
                ent[e].native = Num(s.value.v - s.pkt_prior.v)

\* C6: a restore step of a direct entity that runs after a live update was
\* applied leaves the displayed value, last_update and prior_value as they
\* were.
C6_RestoreAfterLiveChangesNothing ==
    [][(/\ ent[Rain].pc = "await_extra" /\ ent'[Rain].pc = "done"
        /\ ent[Rain].live_seen)
       => /\ ent'[Rain].native = ent[Rain].native
          /\ last_update(WorldNext, Rain) = last_update(World, Rain)
          /\ prior_value(WorldNext, Rain) = prior_value(World, Rain)]_vars

\* the entries of a window that were inserted under the timestamp of the
\* sensor's live reading
LiveEntries(e) ==
    IF s.has_update
    THEN {ent[e].meas[i] : i \in {j \in DOMAIN ent[e].meas :
                                     ent[e].meas[j].t = s.timestamp}}
    ELSE {}

\* C7: the restore step of a window that accepted a positive live increment
\* between its subscription and the loading of its persisted state finishes,
\* and afterwards the window holds the live entry exactly once and its total
\* is the sum of its entries.
C7_RestoreKeepsLiveEntry ==
    [][\A e \in Windows :
        (/\ ent[e].pc = "await_extra" /\ ent'[e].pc = "done"
         /\ ent[e].live_seen
         /\ LiveEntries(e) # {}
         /\ \A x \in LiveEntries(e) : x.v > 0)
        => /\ exc' = "none"
           /\ \A x \in LiveEntries(e) : Count(ent'[e].meas, x) = 1
           /\ ent'[e].native = Num(SumSeq(ent'[e].meas))]_vars

\* C8: once a live update has been published after a restore, nothing that
\* came only from the snapshot remains published: without a decode error in
\* this run the published attributes hold no error key.
C8_LiveDiscardsSnapshot ==
    (/\ ent[Rain].pub.has /\ ent[Rain].pub.live
     /\ ent[Rain].restores > 0 /\ ~s.err_seen)
    => STATE_ATTR_ERROR \notin DOMAIN ent[Rain].pub.attrs.m

\* C9: every entity applies its snapshot at most once and never after its
\* handler has processed live data.
C9_RestoreOnceBeforeLive ==
    \A e \in Ents : ent[e].restores <= 1 /\ ~ent[e].late_restore

\* C10: dispatching the same packet (value, prior value, timestamp) a second
\* time changes no entity's displayed value, last_update or attributes and
\* no window's entries, last_update or total.
C10_ReplayIsIdempotent ==
    [][(/\ op.name = "event" /\ op'.name = "event" /\ exc = "none"
        /\ s'.value = s.value /\ s'.pkt_prior = s.pkt_prior
        /\ s'.timestamp = s.timestamp)
       => \A e \in Ents :
            /\ ent'[e].native = ent[e].native
            /\ ent'[e].attrs = ent[e].attrs
            /\ ent'[e].pub = ent[e].pub
            /\ ent'[e].meas = ent[e].meas
            /\ ent'[e].lu = ent[e].lu
            /\ last_update(WorldNext, e) = last_update(World, e)]_vars

\* C11: a window written to its attribute blob and read back by a fresh
\* window has the same entries and the same last_update, and its first
\* recompute at time now completes and reports the sum of the original
\* entries with timestamp >= now - period.
C11_RoundTripThenRecompute ==
    op.name = "recomputed" =>
        /\ log[2].meas0 = log[1].meas
        /\ log[2].lu0 = log[1].lu
        /\ exc = "none"
        /\ ent[op.e].native = Num(InRangeSum(log[1].meas, now, Period(op.e)))

\* the last operation ran the update handler of e, and every handler it ran
\* came to its end
HandlerRan(e) ==
    /\ exc = "none"
    /\ \/ op.name = "restore" /\ op.e = e
       \/ /\ op.name \in {"event", "refresh"}
          /\ \E i \in DOMAIN listeners : listeners[i] = e

\* C12: when the handler of a window that has been added and whose rain
\* entity is registered has published its state, the attribute blob
\* that is published and handed to the host for persistence is the window's
\* own: measurements are its current entries and last_updated is its own
\* last_update.
C12_BlobIsWindowContents ==
    \A e \in Windows :
        (HandlerRan(e) /\ ent[e].pub.has /\ reg /\ ent[e].pc = "done") =>
            /\ ent[e].pub.attrs = SomeMap(WindowAttrs(ent[e]))
            /\ ent[e].attrs = SomeMap(WindowAttrs(ent[e]))

\* C13: the restore step of a window whose snapshot holds entries older than
\* now - period completes, leaves no such entry in the window, and reports
\* and publishes the sum of the entries that remain.
C13_RestorePrunesStaleEntries ==
    \A e \in Windows :
        (/\ op.name = "restore" /\ op.e = e
         /\ ent[e].restores = 1 /\ log # <<>>
         /\ log[1].native0.k = "str"
         /\ StalePos(log[1].meas0, now, Period(e)) # {})
        => /\ exc = "none"
           /\ StalePos(ent[e].meas, now, Period(e)) = {}
           /\ ent[e].native = Num(SumSeq(ent[e].meas))
           /\ ent[e].pub.has /\ ent[e].pub.value = ent[e].native

\* the entries the persisted blob of window e holds
SnapMeas(e) ==
    IF snap[e].extra.has /\ STATE_ATTR_MEASUREMTS \in DOMAIN snap[e].extra.m
    THEN DictFromSeq(DecodeMeasurements(snap[e].extra.m[STATE_ATTR_MEASUREMTS]))
    ELSE <<>>

\* C14: after a restart without live data, once the rain entity and a window
\* have both run their restore steps, the window holds the persisted entries
\* that have not aged out, nothing else, and reports their sum.
C14_RestartCountsOnce ==
    \A e \in Windows :
        (/\ op.name = "restore" /\ op.e = e
         /\ ~s.has_update /\ snap[e].has /\ snap[Rain].has
         /\ ent[Rain].pc = "done")
        => /\ ent[e].meas =
                 SelectSeq(SnapMeas(e), LAMBDA x : x.t >= now - Period(e))
           /\ FloatOk(ent[e].native)
           /\ Float(ent[e].native) = SumSeq(ent[e].meas)

(* ------------------------------ availability --------------------------- *)
AvDirect == {Rain, Span}
AvEnts == AvDirect \cup Windows \cup {IsRaining}

\* Sensor.update_period of the library: 0 for a push-only sensor, else the
\* nominal seconds between transmissions
AvPeriod == 60
AvPeriods == {0, AvPeriod}
\* the factor 12.1 of the freshness rule, in tenths
TOLERANCE_TENTHS == 121
\* ages around the edge of the freshness rule for AvPeriod
AvEdge == (TOLERANCE_TENTHS * AvPeriod) \div 10
AvAges == {0, AvEdge - 1, AvEdge, AvEdge + 1}

\* the library's Sensor with its update period and its gateway's status
AvSensor(live, t, period, online) ==
    [has_update |-> live, timestamp |-> t, by_event |-> FALSE,
     value |-> IF live THEN Num(0) ELSE NoneV, prior |-> NoneV,
     pkt_prior |-> NoneV, err_seen |-> FALSE,
     update_period |-> period, is_online |-> online]

\* the freshness test with > for >=
available_gt(w, e, t) ==
    IF w.s.update_period = 0 \/ IsCalculated(e)
    THEN w.s.is_online
    ELSE 10 * last_update(w, e) + TOLERANCE_TENTHS * w.s.update_period > 10 * t

\* MobileAlertesEntity.available at time.time() = t
available(w, e, t) ==
    IF w.s.update_period = 0 \/ IsCalculated(e)
    THEN w.s.is_online
    ELSE 10 * last_update(w, e) + TOLERANCE_TENTHS * w.s.update_period >= 10 * t

\* MobileAlertesIsRainingBinarySensor.available: the time span entity's
\* availability, False when the coordinator does not know that entity
IsRaining_available(w, t) ==
    IF w.reg THEN available(w, Span, t) ELSE FALSE

entity_available(w, e, t) ==
    IF e = IsRaining THEN IsRaining_available(w, t) ELSE available(w, e, t)

\* what a direct entity kept of its persisted state: nothing, or extra data
\* with the time of its last update
AvExtras(t0) ==
    {NoneMap} \cup
    {SomeMap([x \in {STATE_ATTR_LAST_UPDATED} |-> isoformat(t0 - a)]) :
        a \in AvAges}

\* the entities are set up; the sensor has live data of some age or none,
\* each direct entity has restored extra data of some age or none
InitAv ==
    /\ clk \in 1..Len(ClockTimes)
    /\ \E live \in BOOLEAN, a \in AvAges, period \in AvPeriods,
          online \in BOOLEAN :
          /\ ~live => a = 0
          /\ s = AvSensor(live, IF live THEN now - a ELSE 0, period, online)
    /\ \E xr \in AvExtras(now), xs \in AvExtras(now) :
          ent = [e \in AvDirect \cup Windows |->
                   [FreshEntity EXCEPT
                      !.pc = "done", !.added = TRUE,
                      !.last_extra = IF e = Rain THEN xr
                                     ELSE IF e = Span THEN xs ELSE NoneMap]]
    /\ reg \in BOOLEAN
    /\ snap = [e \in Ents |-> NoSnap]
    /\ listeners = <<>>
    /\ exc = "none"
    /\ log = <<>>
    /\ op = [name |-> "init", e |-> Rain, result |-> FALSE]
    /\ nEvents = 0
    /\ nEarly = 0

\* the host reads the available property of an entity
ReadAvailable(e) ==
    /\ op' = [name |-> "available", e |-> e,
              result |-> entity_available(World, e, now)]
    /\ UNCHANGED <<clk, s, ent, reg, listeners, snap, exc, log, nEvents, nEarly>>

\* the gateway of the sensor goes online or offline
GatewayStatus ==
    /\ op' = [name |-> "gateway", e |-> Rain, result |-> FALSE]
    /\ s' = [s EXCEPT !.is_online = ~@]
    /\ UNCHANGED <<clk, ent, reg, listeners, snap, exc, log, nEvents, nEarly>>

\* time passes
TickAv ==
    /\ op' = [name |-> "tick", e |-> Rain, result |-> FALSE]
    /\ clk < Len(ClockTimes)
    /\ clk' = clk + 1
    /\ UNCHANGED <<s, ent, reg, listeners, snap, exc, log, nEvents, nEarly>>

NextAv ==
    \/ \E e \in AvEnts : ReadAvailable(e)
    \/ GatewayStatus
    \/ TickAv

SpecAv == InitAv /\ [][NextAv]_vars

\* the time of the last update as the claim words it: the live timestamp,
\* else the restored last_updated, else 0
AvLastUpdate(e) ==
    IF s.has_update THEN s.timestamp
    ELSE IF ent[e].last_extra.has
         THEN ent[e].last_extra.m[STATE_ATTR_LAST_UPDATED].iso
         ELSE 0

\* C15: a direct entity of a sensor with update period P > 0 is available
\* exactly when now - last_update <= 12.1 * P, the edge included.
C15_FreshnessRule ==
    (op.name = "available" /\ op.e \in AvDirect /\ s.update_period > 0) =>
        (op.result <=>
            10 * (now - AvLastUpdate(op.e))
                <= TOLERANCE_TENTHS * s.update_period)

\* a direct entity exactly 12.1 * P seconds old has been read as available
C15_Witness ==
    /\ op.name = "available" /\ op.e \in AvDirect
    /\ s.update_period = AvPeriod
    /\ 10 * (now - AvLastUpdate(op.e)) = TOLERANCE_TENTHS * s.update_period
    /\ op.result

\* C16: the availability of a push-only entity (update period 0), of a rain
\* window and of the is-raining entity is the online status of the parent
\* gateway, whatever the age of any value.
C16_MirrorsParentStatus ==
    (/\ op.name = "available"
     /\ s.update_period = 0 \/ op.e \in Windows \cup {IsRaining})
    => (op.result <=> s.is_online)

\* the entity has no live value and restored nothing
AvNoData(e) ==
    /\ ~s.has_update
    /\ e \in AvDirect => ~ent[e].last_extra.has
    /\ e = IsRaining => ~ent[Span].last_extra.has
    /\ e \in Windows => ent[e].lu = 0 /\ ~ent[e].last_extra.has

\* C17: an entity without a live value and without restored data is
\* unavailable, whatever its kind and whatever the gateway's status.
C17_NoDataIsUnavailable ==
    (op.name = "available" /\ AvNoData(op.e)) => ~op.result

\* C18: once the rain counter entity has run its restore step on a snapshot
\* and the sensor has no live data, its value is the snapshot's state, its
\* last_update and prior_value are the snapshot's, and the published
\* attributes are the snapshot's attributes; later triggers without live
\* data keep it so.
C18_RestoredDirectEntity ==
    (/\ ent[Rain].pc = "done" /\ ~s.has_update
     /\ snap[Rain].has /\ snap[Rain].extra.has)
    => /\ ent[Rain].native = snap[Rain].state
       /\ last_update(World, Rain) =
            fromisoformat(snap[Rain].extra.m[STATE_ATTR_LAST_UPDATED])
       /\ PriorSource(World, Rain) =
            snap[Rain].extra.m[STATE_ATTR_PRIOR_VALUE]
       /\ ent[Rain].pub.has
       /\ ent[Rain].pub.value = snap[Rain].state
       /\ ent[Rain].pub.attrs = snap[Rain].extra

\* C19: a live update whose measurement is a decode error leaves the rain
\* counter entity with a null value and the event's timestamp, and its
\* handler runs to the end: the state it publishes for this event is null
\* and carries the error and the timestamp, which a state without data
\* never does.
C19_DecodeErrorIsNotFatal ==
    (/\ op.name = "event" /\ s.value = ErrV
     /\ ent[Rain].added /\ ent[Rain].pc = "done"
     /\ \E i \in DOMAIN listeners : listeners[i] = Rain)
    => /\ ent[Rain].native = NoneV
       /\ last_update(World, Rain) = s.timestamp
       /\ ent[Rain].pub.has /\ ent[Rain].pub.live
       /\ ent[Rain].pub.value = NoneV
       /\ STATE_ATTR_ERROR \in DOMAIN ent[Rain].pub.attrs.m
       /\ ent[Rain].pub.attrs.m[STATE_ATTR_LAST_UPDATED] = isoformat(s.timestamp)

\* C20: no handler invocation ends with an exception: after every operation
\* the handlers it ran have returned normally.
C20_NoUnhandledError == exc = "none"

(* ---------------------- restoring from stored data ---------------------- *)
\* const.py: the recognized attribute names
STATE_ATTR_EXTRA ==
    {STATE_ATTR_BY_EVENT, STATE_ATTR_ERROR, STATE_ATTR_LAST_UPDATED,
     STATE_ATTR_PRIOR_VALUE, STATE_ATTR_MEASUREMTS}
\* a name const.py does not list
UNKNOWN_KEY == "other"

\* MobileAlertesExtraStoredData.from_dict: keep the recognized names
from_dict(m) == [k \in DOMAIN m \cap STATE_ATTR_EXTRA |-> m[k]]

\* the measurement lists a stored blob of a window may hold: well-formed
\* ones, one with a timestamp that is no ISO string, one with an increment
\* that is no number
StoredLists ==
    {<<>>,
     <<<<isoformat(100), 1>>>>,
     <<<<isoformat(100), 1>>, <<isoformat(1000), 1>>>>,
     <<<<BadIso, 1>>>>,
     <<<<isoformat(100), BadInc>>>>,
     <<<<isoformat(1000), 1>>, <<BadIso, 1>>>>}
StoredTimes == {isoformat(100), BadIso}
StoredPriors == {Num(0), NoneV, UnkV}

\* every value a stored blob may give to a name
StoredValues ==
    {[x \in STATE_ATTR_EXTRA \cup {UNKNOWN_KEY} |->
        CASE x = STATE_ATTR_MEASUREMTS -> ml
          [] x = STATE_ATTR_LAST_UPDATED -> t
          [] x = STATE_ATTR_PRIOR_VALUE -> p
          [] x = STATE_ATTR_BY_EVENT -> FALSE
          [] x = STATE_ATTR_ERROR -> "error"
          [] OTHER -> "x"] :
        ml \in StoredLists, t \in StoredTimes, p \in StoredPriors}

\* the names an entity of this kind writes, and a foreign one
StoredKeys(e) ==
    IF e \in Windows
    THEN {STATE_ATTR_LAST_UPDATED, STATE_ATTR_MEASUREMTS, UNKNOWN_KEY}
    ELSE {STATE_ATTR_LAST_UPDATED, STATE_ATTR_PRIOR_VALUE,
          STATE_ATTR_BY_EVENT, UNKNOWN_KEY}

StoredBlobs(e) ==
    {[k \in K |-> v[k]] : K \in SUBSET StoredKeys(e), v \in StoredValues}

\* what a run that read 1 at time 100 after 0 stored for the rain entity
GoodRainSnap ==
    [has |-> TRUE, state |-> Str(1),
     extra |-> SomeMap([x \in {STATE_ATTR_LAST_UPDATED, STATE_ATTR_PRIOR_VALUE,
                               STATE_ATTR_BY_EVENT} |->
                          CASE x = STATE_ATTR_LAST_UPDATED -> isoformat(100)
                            [] x = STATE_ATTR_PRIOR_VALUE -> Num(0)
                            [] OTHER -> FALSE])]

\* a start where the store holds some blob for one entity; the rain entity
\* has a well-formed one when the blob is a window's
InitRS ==
    /\ clk = 1
    /\ s = FreshSensor
    /\ ent = [e \in Ents |-> FreshEntity]
    /\ reg \in BOOLEAN
    /\ \E e \in Ents : \E b \in StoredBlobs(e) :
          snap = [x \in Ents |->
                    IF x = e
                    THEN [has |-> TRUE, state |-> Str(1), extra |-> SomeMap(b)]
                    ELSE IF x = Rain THEN GoodRainSnap ELSE NoSnap]
    /\ listeners = <<>>
    /\ exc = "none"
    /\ log = <<>>
    /\ op = [name |-> "init", e |-> Rain]
    /\ nEvents = 0
    /\ nEarly = 0

\* async_added_to_hass without a trigger in between: the entity subscribes,
\* reads its stored state and extra data and runs its handler
AddRS(e) ==
    /\ op' = [name |-> "restore", e |-> e]
    /\ ent[e].pc = "new"
    /\ snap[e].has
    /\ e # Rain => ent[Rain].pc = "done"
    /\ listeners' = Append(listeners, e)
    /\ LET w0 == [World EXCEPT
                    !.ent[e].pc = "done", !.ent[e].added = TRUE,
                    !.ent[e].last_state = [has |-> TRUE,
                                           state |-> snap[e].state],
                    !.ent[e].last_extra = snap[e].extra]
       IN  Commit(handle_coordinator_update(w0, e, now))
    /\ UNCHANGED <<clk, reg, snap, nEvents, nEarly>>

\* the coordinator's periodic refresh
RefreshRS ==
    /\ op' = [name |-> "refresh", e |-> Rain]
    /\ listeners # <<>>
    /\ Commit(Notify(World, listeners, now))
    /\ UNCHANGED <<clk, reg, listeners, snap, nEvents, nEarly>>

\* the properties last_update and prior_value of an entity are read
ReadRS(e) ==
    /\ ent[e].pc = "done"
    /\ op' = [name |-> "read", e |-> e,
              lu |-> IF last_update_raises(World, e)
                     THEN [exc |-> "ValueError", v |-> 0]
                     ELSE [exc |-> "none", v |-> last_update(World, e)],
              prior |-> IF prior_value_raises(World, e)
                        THEN [exc |-> "ValueError", v |-> 0]
                        ELSE [exc |-> "none", v |-> prior_value(World, e)]]
    /\ UNCHANGED <<clk, s, ent, reg, listeners, snap, exc, log, nEvents, nEarly>>

NextRS ==
    \/ \E e \in Ents : AddRS(e)
    \/ RefreshRS
    \/ \E e \in Ents : ReadRS(e)

SpecRS == InitRS /\ [][NextRS]_vars

StoredHas(e, k) == k \in DOMAIN snap[e].extra.m
\* the stored blob of e holds a field the restore cannot parse
BadList(e) ==
    StoredHas(e, STATE_ATTR_MEASUREMTS)
        /\ MeasurementsRaise(snap[e].extra.m[STATE_ATTR_MEASUREMTS])
BadTime(e) ==
    StoredHas(e, STATE_ATTR_LAST_UPDATED)
        /\ ~IsoOk(snap[e].extra.m[STATE_ATTR_LAST_UPDATED])

\* C21: the restore step of an entity whose stored blob has a field that
\* cannot be parsed does not raise; a window whose entries cannot be parsed
\* is restored empty, and a malformed last_updated gives last_update 0 for a
\* window and for a direct entity.
C21_MalformedFieldIsDropped ==
    /\ \A e \in Windows :
          (op.name = "restore" /\ op.e = e /\ (BadList(e) \/ BadTime(e)))
          => /\ exc = "none"
             /\ BadList(e) => ent[e].meas = <<>>
             /\ BadTime(e) => ent[e].lu = 0
             /\ ent[e].pub.has
    /\ (op.name = "read" /\ op.e = Rain /\ BadTime(Rain))
          => op.lu = [exc |-> "none", v |-> 0]

\* every field of the stored blob of e can be parsed
WellFormed(e) ==
    /\ ~BadList(e) /\ ~BadTime(e)
    /\ StoredHas(e, STATE_ATTR_PRIOR_VALUE)
          => snap[e].extra.m[STATE_ATTR_PRIOR_VALUE] # UnkV

\* C22: restoring an entity from a well-formed stored blob keeps the
\* recognized names of the blob and no other name, in what the entity holds
\* and in what it publishes; it does not raise; a window whose blob lacks
\* measurements enters its recompute empty, one whose blob lacks last_updated
\* with last_update 0; a direct entity without last_updated reads
\* last_update 0 and one without prior_value reads prior_value -1.
C22_RecognizedKeysAndDefaults ==
    /\ \A e \in Ents :
          (op.name = "restore" /\ op.e = e /\ WellFormed(e))
          => /\ exc = "none"
             /\ ent[e].last_extra.m = from_dict(snap[e].extra.m)
             /\ ent[e].pub.has
             /\ DOMAIN ent[e].pub.attrs.m \subseteq STATE_ATTR_EXTRA
    /\ \A e \in Windows :
          (op.name = "restore" /\ op.e = e /\ WellFormed(e))
          => /\ ~StoredHas(e, STATE_ATTR_MEASUREMTS) => log[1].meas0 = <<>>
             /\ ~StoredHas(e, STATE_ATTR_LAST_UPDATED) => log[1].lu0 = 0
    /\ (op.name = "read" /\ op.e = Rain /\ WellFormed(Rain))
          => /\ ~StoredHas(Rain, STATE_ATTR_LAST_UPDATED)
                   => op.lu = [exc |-> "none", v |-> 0]
             /\ ~StoredHas(Rain, STATE_ATTR_PRIOR_VALUE)
                   => op.prior = [exc |-> "none", v |-> -1]

\* C23: a window that has not found the rain counter entity in the
\* coordinator has asserted no value and published no state.
C23_NoBaseNoState ==
    \A e \in Windows :
        ~ent[e].rain_ref =>
            /\ ~ent[e].pub.has
            /\ ent[e].native.k # "num"

(* --------------------------- the is-raining entity --------------------- *)
\* the values the time span entity may show: none, zero, below one, one,
\* and restored state strings
SpanValues ==
    {NoneV, Num(0), Num(5), Num(10), Str(0), Str(5), Str(10), UnkV}
\* ages of the time span entity's value around LAST_RAIN_PERIOD
SpanAges == {0, LAST_RAIN_PERIOD - 1, LAST_RAIN_PERIOD, LAST_RAIN_PERIOD + 1}

\* the time span entity shows some value of some age, live or restored, or
\* none; the is-raining entity starts with _attr_is_on False or holds the
\* True of an earlier recompute
InitIR ==
    /\ clk \in 1..Len(ClockTimes)
    /\ reg \in BOOLEAN
    /\ \E v \in SpanValues, a \in SpanAges, live \in BOOLEAN, on \in BOOLEAN :
          /\ s = [FreshSensor EXCEPT !.has_update = live,
                                     !.timestamp = IF live THEN now - a ELSE 0]
          /\ v.k \in (IF live THEN {"none", "num"} ELSE {"none", "str", "unk"})
          /\ ent = [e \in {Span, IsRaining} |->
                      IF e = Span
                      THEN [FreshEntity EXCEPT
                              !.pc = "done", !.added = TRUE, !.native = v,
                              !.last_extra =
                                 IF live THEN NoneMap
                                 ELSE SomeMap([x \in {STATE_ATTR_LAST_UPDATED}
                                                 |-> isoformat(now - a)])]
                      ELSE [FreshEntity EXCEPT
                              !.pc = "done", !.added = TRUE,
                              !.native = BoolV(on)]]
    /\ snap = [e \in Ents |-> NoSnap]
    /\ listeners = <<>>
    /\ exc = "none"
    /\ log = <<>>
    /\ op = [name |-> "init", e |-> IsRaining]
    /\ nEvents = 0
    /\ nEarly = 0

\* the is-raining entity recomputes its value
RecomputeIR ==
    /\ op' = [name |-> "recompute", e |-> IsRaining]
    /\ Commit(IsRaining_update_data_from_sensor(World, now))
    /\ UNCHANGED <<clk, reg, listeners, snap, nEvents, nEarly>>

\* time passes
TickIR ==
    /\ op' = [name |-> "tick", e |-> IsRaining]
    /\ clk < Len(ClockTimes)
    /\ clk' = clk + 1
    /\ exc' = "none"
    /\ UNCHANGED <<s, ent, reg, listeners, snap, log, nEvents, nEarly>>

NextIR == RecomputeIR \/ TickIR

SpecIR == InitIR /\ [][NextIR]_vars

\* C24: after a recompute that returned, the is-raining entity is on exactly
\* when the time span entity is known to the coordinator, its value is
\* exactly 0 and its last_update is not older than now - 900; every other
\* value, a null one and a non-zero one below 1 included, gives off.
C24_IsRainingIffZeroAndFresh ==
    (op.name = "recompute" /\ exc = "none") =>
        /\ ent[IsRaining].native =
              BoolV(/\ reg
                    /\ ent[Span].native.k \in {"num", "str"}
                    /\ ent[Span].native.v = 0
                    /\ last_update(World, Span) >= now - LAST_RAIN_PERIOD)

\* C25: when the rain counter entity's handler applies a live value, the
\* first recomputes of the operation are those of its dependents, one per
\* dependent, in the order of registration, each seeing the timestamp the
\* base has just taken.
C25_FanOutInOrder ==
    [][(/\ op'.name \in {"event", "refresh"}
        /\ listeners # <<>> /\ listeners[1] = Rain
        /\ s'.has_update)
       => /\ Len(log') >= Len(ent[Rain].deps)
          /\ \A i \in 1..Len(ent[Rain].deps) :
                /\ log'[i].e = ent[Rain].deps[i]
                /\ log'[i].base_t = s'.timestamp]_vars

(* ------------- one sensor event and the order of the handlers ---------- *)
\* the time span entity comes from the sensor platform and the is-raining
\* entity from the binary sensor platform: the host subscribes the two in
\* either order
ListenerOrders == {<<Span, IsRaining>>, <<IsRaining, Span>>}
\* the time span values a packet may carry (tenths): 0, 1.0, a decode error
SpanEventValues == {Num(0), Num(10), ErrV}

\* the library's Sensor with its time span measurement
SpanSensor(live, t, v) ==
    [has_update |-> live, timestamp |-> t, by_event |-> FALSE,
     value |-> NoneV, prior |-> NoneV, pkt_prior |-> NoneV,
     err_seen |-> FALSE, span |-> v]

\* both entities are added, registered with the coordinator and without
\* stored state; no packet has arrived
InitEv ==
    /\ clk = 1
    /\ s = SpanSensor(FALSE, 0, NoneV)
    /\ ent = [e \in {Span, IsRaining} |->
                [FreshEntity EXCEPT
                   !.pc = "done", !.added = TRUE,
                   !.native = IF e = IsRaining THEN BoolV(FALSE) ELSE NoneV]]
    /\ reg = TRUE
    /\ snap = [e \in Ents |-> NoSnap]
    /\ listeners \in ListenerOrders
    /\ exc = "none"
    /\ log = <<>>
    /\ op = [name |-> "init", e |-> Span]
    /\ nEvents = 0
    /\ nEarly = 0

\* sensor_updated: a packet with a time span value arrives and the
\* coordinator calls every listener in subscription order
SpanUpdated(v, t) ==
    /\ op' = [name |-> "event", e |-> Span]
    /\ nEvents < MaxEvents + 1
    /\ nEvents' = nEvents + 1
    /\ Commit(Notify([World EXCEPT !.s = SpanSensor(TRUE, t, v)],
                     listeners, now))
    /\ UNCHANGED <<clk, reg, listeners, snap, nEarly>>

\* the coordinator's periodic refresh
RefreshEv ==
    /\ op' = [name |-> "refresh", e |-> Span]
    /\ Commit(Notify(World, listeners, now))
    /\ UNCHANGED <<clk, reg, listeners, snap, nEvents, nEarly>>

\* time passes
TickEv ==
    /\ op' = [name |-> "tick", e |-> Span]
    /\ clk < Len(ClockTimes)
    /\ clk' = clk + 1
    /\ exc' = "none"
    /\ UNCHANGED <<s, ent, reg, listeners, snap, log, nEvents, nEarly>>

NextEv ==
    \/ \E v \in SpanEventValues : SpanUpdated(v, now)
    \/ RefreshEv
    \/ TickEv

SpecEv == InitEv /\ [][NextEv]_vars

\* C26: when an event has been processed and no handler raised, the state
\* published for the is-raining entity is the value a recompute gives from
\* the time span entity's value and timestamp after the event, whatever the
\* order of the two handlers.
C26_PublishedFromUpdatedBase ==
    (op.name = "event" /\ exc = "none") =>
        /\ ent[IsRaining].pub.has
        /\ ent[IsRaining].pub.value =
              IsRaining_update_data_from_sensor(World, now).ent[IsRaining].native

(* ---------------------- registering dependents ------------------------- *)
RECURSIVE DistinctSeqs(_)
\* the sequences without repetition over the set S
DistinctSeqs(S) ==
    {<<>>} \cup
    UNION {{<<x>> \o q : q \in DistinctSeqs(S \ {x})} : x \in S}

\* the dependents a base entity can have: the windows for the rain counter
\* entity, the is-raining entity for the time span entity
DependentsOf(base) == IF base = Rain THEN Windows ELSE {IsRaining}

\* each base entity has registered some of its dependents in some order
InitDep ==
    /\ clk = 1
    /\ s = FreshSensor
    /\ \E dr \in DistinctSeqs(Windows), ds \in DistinctSeqs({IsRaining}) :
          ent = [e \in {Rain, Span} |->
                   [FreshEntity EXCEPT !.deps = IF e = Rain THEN dr ELSE ds]]
    /\ reg = TRUE
    /\ snap = [e \in Ents |-> NoSnap]
    /\ listeners = <<>>
    /\ exc = "none"
    /\ log = <<>>
    /\ op = [name |-> "init", base |-> Rain, e |-> Rain]
    /\ nEvents = 0
    /\ nEarly = 0

\* a dependent registers on its base; the log keeps the list before the call
Register(base, e) ==
    /\ op' = [name |-> "register", base |-> base, e |-> e]
    /\ log' = <<ent[base].deps>>
    /\ ent' = add_dependent(World, base, e).ent
    /\ UNCHANGED <<clk, s, reg, listeners, snap, exc, nEvents, nEarly>>

NextDep == \E base \in {Rain, Span} : \E e \in DependentsOf(base) : Register(base, e)

SpecDep == InitDep /\ [][NextDep]_vars

Range(q) == {q[i] : i \in 1..Len(q)}

\* C27: after a dependent has registered on a base, the base lists it once;
\* registering one that was listed leaves the list as it was, and a new one
\* goes to the end, behind those registered earlier.
C27_RegisterIsIdempotent ==
    op.name = "register" =>
        /\ Count(ent[op.base].deps, op.e) = 1
        /\ op.e \in Range(log[1]) => ent[op.base].deps = log[1]
        /\ op.e \notin Range(log[1]) => ent[op.base].deps = Append(log[1], op.e)

\* a dependent listed among others has registered again
C27_Witness ==
    /\ op.name = "register"
    /\ op.e \in Range(log[1])
    /\ Len(log[1]) >= 2
    /\ ent[op.base].deps = log[1]

\* the base's list of dependents is the same before and after the fan-out
\* its handler runs from w
FanOutKeepsList(w, base, t) ==
    FanOut(ApplyValue(w, base, t), ApplyValue(w, base, t).ent[base].deps,
           t).ent[base].deps
        = ApplyValue(w, base, t).ent[base].deps

\* C28: in every state, the fan-out of the time span entity's handler, run
\* for a refresh or for any packet, ends with the list of dependents it
\* started with, although the is-raining entity registers on every
\* recompute.
C28_FanOutKeepsDependents ==
    /\ FanOutKeepsList(World, Span, now)
    /\ \A v \in SpanEventValues :
          FanOutKeepsList([World EXCEPT !.s = SpanSensor(TRUE, now, v)],
                          Span, now)

\* a second packet has been fanned out to the registered is-raining entity
C28_Witness ==
    /\ op.name = "event" /\ nEvents >= 2 /\ exc = "none"
    /\ ent[Span].deps = <<IsRaining>>
    /\ ent[Span].native = Num(0)
    /\ ent[IsRaining].native = BoolV(TRUE)

\* C29: a packet of another sensor of the gateway reaches the entities of
\* this sensor as a notification of all listeners that leaves this sensor's
\* data as it is (sensor_updated passes no payload), which is what Refresh
\* does.  Once all entities are set up, such a notification leaves the rain
\* counter entity's value, last_update and prior value unchanged, adds no
\* entry to a window and leaves each window's last_update unchanged.
C29_OtherSensorsUntouched ==
    [][(op'.name = "refresh" /\ AllDone)
       => /\ ent'[Rain].native = ent[Rain].native
          /\ last_update(WorldNext, Rain) = last_update(World, Rain)
          /\ PriorSource(WorldNext, Rain) = PriorSource(World, Rain)
          /\ \A e \in Windows :
                /\ Keys(ent'[e].meas) \subseteq Keys(ent[e].meas)
                /\ ent'[e].lu = ent[e].lu]_vars

\* C30: a recompute of a window whose rain entity has no usable prior value
\* (prior_value is -1) or a timestamp not past the window's own last_update
\* inserts no entry, leaves the window's last_update unchanged, completes
\* and reports the sum of the entries in range.
C30_NoIncrementStillCompletes ==
    \A i \in DOMAIN log :
        (log[i].resolved
            /\ (log[i].prior < 0 \/ log[i].base_t <= log[i].lu0)) =>
            /\ log[i].measA = log[i].meas0
            /\ log[i].lu1 = log[i].lu0
            /\ log[i].exc = "none"
            /\ log[i].native1 =
                  Num(InRangeSum(log[i].meas0, log[i].now, Period(log[i].e)))

(* --------------------- the life cycle of a window ---------------------- *)
\* A first start without persisted state, all entities registered and added
\* in list order; from then on packets arrive, the coordinator's refresh
\* recurs (update_interval) and the wall clock advances.
BootWorld ==
    BootAll([s |-> FreshSensor, ent |-> [e \in Ents |-> FreshEntity],
             reg |-> TRUE, exc |-> "none", log |-> <<>>],
            ListOrder, ClockTimes[1])

InitLive ==
    /\ clk = 1
    /\ s = FreshSensor
    /\ ent = BootWorld.ent
    /\ reg = TRUE
    /\ snap = [e \in Ents |-> NoSnap]
    /\ listeners = ListOrder
    /\ exc = "none"
    /\ log = <<>>
    /\ op = [name |-> "init", e |-> Rain]
    /\ nEvents = 0
    /\ nEarly = 0

NextLive ==
    \/ \E v \in EventValues, p \in EventPriors, t \in EventTimes :
          SensorUpdated(v, p, t)
    \/ Refresh
    \/ Tick

\* a refresh would leave every variable as it is: <<Refresh>>_vars is not
\* enabled
RefreshIsNoOp(w) ==
    \/ listeners = <<>>
    \/ ~AllDone /\ nEarly >= MaxEarly
    \/ /\ AllDone /\ op.name = "refresh"
       /\ w.s = s /\ w.ent = ent /\ w.exc = exc /\ w.log = log

\* WF_vars(Refresh), written with the state predicate above in place of
\* ENABLED <<Refresh>>_vars; a step that sets op to "refresh" is a Refresh step
RefreshRecurs ==
    \/ []<>RefreshIsNoOp(Notify(World, listeners, now))
    \/ []<><<op'.name = "refresh">>_vars

SpecLive ==
    /\ InitLive /\ [][NextLive]_vars
    /\ RefreshRecurs
    /\ WF_vars(Tick)

LastTime == ClockTimes[Len(ClockTimes)]

\* the windows an entry of the first instant leaves before the last one
Expirable == {e \in Windows : ClockTimes[1] < LastTime - Period(e)}

\* ACCUMULATING with entries that are all out of range at the last instant
Expiring(e) ==
    /\ ent[e].meas # <<>>
    /\ \A i \in DOMAIN ent[e].meas : ent[e].meas[i].t < LastTime - Period(e)

\* ACCUMULATING with an entry accepted late enough to stay in range
HasFresh(e) ==
    \E i \in DOMAIN ent[e].meas : ent[e].meas[i].t >= LastTime - Period(e)

\* EMPTY, with the total 0 displayed and published
Empty0(e) ==
    /\ ent[e].meas = <<>>
    /\ ent[e].native = Num(0)
    /\ ent[e].pub.has /\ ent[e].pub.value = Num(0)

\* C31: a window whose entries all age out returns to EMPTY with the total 0
\* displayed and published, unless a further increment is accepted, while
\* the refresh keeps notifying and the clock advances.
C31_WindowReturnsToEmpty ==
    \A e \in Expirable : Expiring(e) ~> (Empty0(e) \/ HasFresh(e))

(* ------------------ one event and the three windows ------------------- *)
\* the recomputes of the last operation in which window e inserted an entry
Inserting(e) ==
    {i \in DOMAIN log : log[i].e = e /\ log[i].measA # log[i].meas0}

\* the entry recompute i inserted
Inserted(i) ==
    {log[i].measA[j] : j \in {k \in DOMAIN log[i].measA :
                                 Count(log[i].meas0, log[i].measA[k]) = 0}}

\* C32: in a sensor event in which some window inserts the rain increment,
\* each of the three windows inserts it in exactly one of its recomputes,
\* and all insert the same (timestamp, increment) entry.
C32_OneInsertPerWindowPerEvent ==
    (/\ op.name = "event" /\ AllDone /\ reg
     /\ \E e \in Windows : Inserting(e) # {})
    => /\ \A e \in Windows : Cardinality(Inserting(e)) = 1
       /\ Cardinality(UNION {Inserted(i) : i \in DOMAIN log}) = 1

\* the entries a window holds, as a set
Entries(e) == {ent[e].meas[i] : i \in DOMAIN ent[e].meas}

\* the windows in the order of their periods (create_sensor_entities)
Shorter == {<<"w15", "w60">>, <<"w60", "wday">>}

\* C33: the three windows start empty and see the same packets; after every
\* sensor event processed without an exception each window shows a number,
\* the total of a shorter window is <= the total of the next longer one, and
\* its entries are a subset of the longer window's entries.
C33_WindowsAreNested ==
    (op.name = "event" /\ exc = "none") =>
        \A p \in Shorter :
            /\ ent[p[1]].native.k = "num" /\ ent[p[2]].native.k = "num"
            /\ ent[p[1]].native.v <= ent[p[2]].native.v
            /\ Entries(p[1]) \subseteq Entries(p[2])

(* ------------------- the published attribute map ----------------------- *)
\* C34: after a sensor event processed without an exception the attributes
\* the rain counter entity has published hold the error key iff the packet's
\* measurement is a decode error.  (Stated for a start without stored state,
\* where every published key comes from a packet of this run.)
C34_ErrorIffDecodeError ==
    (/\ op.name = "event" /\ exc = "none" /\ ent[Rain].pub.has
     /\ ~snap[Rain].has)
    => (STATE_ATTR_ERROR \in DOMAIN ent[Rain].pub.attrs.m <=> s.value = ErrV)

(* ------------------- the first reading after a start ------------------- *)
\* the last operation was the first packet of this run, a valid reading that
\* carried no prior value, for a sensor whose entities are all registered,
\* added and restored
FirstReading ==
    /\ op.name = "event" /\ nEvents = 1 /\ AllDone /\ reg
    /\ s.value.k = "num" /\ s.pkt_prior.k = "none"

\* the entries the windows inserted in the last operation
InsertedNow == UNION {Inserted(i) : i \in DOMAIN log}

PrevTimes == {50, 150}

RestartRuns ==
    {[reg |-> TRUE,
      pkts |-> <<Packet(Num(1), Num(0), 100), Packet(Num(1), Num(1), t)>>] :
        t \in PrevTimes}

InitRestart ==
    /\ clk = 1
    /\ s = FreshSensor
    /\ ent = [e \in Ents |-> FreshEntity]
    /\ reg = TRUE
    /\ \E run \in RestartRuns : snap = SnapshotOf(run)
    /\ listeners = <<>>
    /\ exc = "none"
    /\ log = <<>>
    /\ op = [name |-> "init", e |-> Rain]
    /\ nEvents = 0
    /\ nEarly = 0

\* the entities are added and restored before the first packet of the new
\* run; the coordinator's refresh notifies them meanwhile
NextRestart ==
    \/ \E e \in Ents : Subscribe(e)
    \/ \E e \in Ents : LoadState(e)
    \/ \E e \in Ents : RestoreStep(e)
    \/ Refresh
    \/ Tick

SpecRestart == InitRestart /\ [][NextRestart]_vars

\* C36: every entry a window holds has a timestamp <= the window's
\* last_update, and a sensor event or a refresh never lowers a window's
\* last_update.
C36_EntriesNotAfterLastUpdate ==
    [][/\ \A e \in Windows : \A i \in DOMAIN ent'[e].meas :
             ent'[e].meas[i].t <= ent'[e].lu
       /\ op'.name \in {"event", "refresh"} =>
             \A e \in Windows : ent'[e].lu >= ent[e].lu]_vars

====
